---- MODULE Spec2Model ----
(***************************************************************************)
(* Model of the Minesweeper knowledge base of src/minesweeper.py:          *)
(* class Sentence, class MinesweeperAI and the part of class Minesweeper   *)
(* that reports the neighbouring-mine count.  A cell is a pair             *)
(* <<i, j>>, i the row and j the column.  A Sentence object is a record    *)
(* [cells, count]; the list self.knowledge is a sequence of them, and      *)
(* the in-place mutation of the objects held in the list is a map over     *)
(* the sequence.                                                           *)
(***************************************************************************)
EXTENDS Integers, FiniteSets, Sequences, TLC

\* Largest grid height, grid width and number of mines explored.
MaxHeight == 3
MaxWidth == 3
MaxMines == 2
\* Largest number of mines explored under the fair specification.
MaxMinesLive == 1

VARIABLES
    height,         \* MinesweeperAI.height (= Minesweeper.height)
    width,          \* MinesweeperAI.width  (= Minesweeper.width)
    board,          \* Minesweeper.mines: the cells that hold a mine
    moves_made,     \* MinesweeperAI.moves_made
    safes,          \* MinesweeperAI.safes
    mines,          \* MinesweeperAI.mines
    knowledge,      \* MinesweeperAI.knowledge
    newInferences,  \* local list of add_knowledge
    pc,             \* position of the running call
    it,             \* index of the running for loop over self.knowledge
    sample,         \* (i, j) of make_random_move
    ret             \* the last call that returned, and its value

vars == <<height, width, board, moves_made, safes, mines, knowledge,
          newInferences, pc, it, sample, ret>>

kbvars == <<moves_made, safes, mines, knowledge>>

None == <<>>

\* The cells of an h x w board.
Grid(h, w) == (0 .. h - 1) \X (0 .. w - 1)

\* The eight offsets in the order add_knowledge tests them.
Deltas ==
    << <<1, 0>>, <<-1, 0>>, <<0, 1>>, <<0, -1>>,
       <<-1, -1>>, <<-1, 1>>, <<1, -1>>, <<1, 1>> >>

\* Minesweeper.nearby_mines: mines within one row and column, in bounds.
nearby_mines(cell) ==
    Cardinality({c \in (cell[1] - 1 .. cell[1] + 1) \X (cell[2] - 1 .. cell[2] + 1) :
                    /\ c # cell
                    /\ 0 <= c[1] /\ c[1] < height
                    /\ 0 <= c[2] /\ c[2] < width
                    /\ c \in board})

\* Sentence.__init__
Sentence(cells, count) == [cells |-> cells, count |-> count]

\* Truth value of Sentence.known_mines(): the returned set is non-empty.
known_mines(s) == Cardinality(s.cells) = s.count /\ s.cells # {}

\* Truth value of Sentence.known_safes(): the returned set is non-empty.
known_safes(s) == s.count = 0 /\ s.cells # {}

\* Sentence.mark_mine with the decrement outside the membership test.
SentenceMarkMineAlways(s, cell) ==
    [cells |-> s.cells \ {cell}, count |-> s.count - 1]

\* Sentence.mark_mine
SentenceMarkMine(s, cell) ==
    IF cell \in s.cells
    THEN [cells |-> s.cells \ {cell}, count |-> s.count - 1]
    ELSE s

\* Sentence.mark_safe
SentenceMarkSafe(s, cell) ==
    IF cell \in s.cells
    THEN [cells |-> s.cells \ {cell}, count |-> s.count]
    ELSE s

\* The knowledge base is passed around as a record [safes, mines, knowledge].
KB(sf, mn, kn) == [safes |-> sf, mines |-> mn, knowledge |-> kn]

\* MinesweeperAI.mark_mine
mark_mine(kb, cell) ==
    [safes |-> kb.safes,
     mines |-> kb.mines \cup {cell},
     knowledge |-> [n \in 1 .. Len(kb.knowledge) |->
                        SentenceMarkMine(kb.knowledge[n], cell)]]

\* MinesweeperAI.mark_safe that also takes the cell out of mines.
mark_safe_exclusive(kb, cell) ==
    [safes |-> kb.safes \cup {cell},
     mines |-> kb.mines \ {cell},
     knowledge |-> [n \in 1 .. Len(kb.knowledge) |->
                        SentenceMarkSafe(kb.knowledge[n], cell)]]

\* MinesweeperAI.mark_safe
mark_safe(kb, cell) ==
    [safes |-> kb.safes \cup {cell},
     mines |-> kb.mines,
     knowledge |-> [n \in 1 .. Len(kb.knowledge) |->
                        SentenceMarkSafe(kb.knowledge[n], cell)]]

\* "for m in cells: self.mark_mine(m)"
RECURSIVE MarkMines(_, _)
MarkMines(kb, cells) ==
    IF cells = {} THEN kb
    ELSE LET m == CHOOSE x \in cells : TRUE
         IN MarkMines(mark_mine(kb, m), cells \ {m})

\* "for s in cells: self.mark_safe(s)"
RECURSIVE MarkSafes(_, _)
MarkSafes(kb, cells) ==
    IF cells = {} THEN kb
    ELSE LET s == CHOOSE x \in cells : TRUE
         IN MarkSafes(mark_safe(kb, s), cells \ {s})

\* The bounds test add_knowledge applies to the neighbour (i+di, j+dj):
\* the row against self.width, the column against self.height.
NeighborInBounds(i, j, d) ==
    /\ (d[1] = 1 => i + 1 < width)
    /\ (d[1] = -1 => i - 1 >= 0)
    /\ (d[2] = 1 => j + 1 < height)
    /\ (d[2] = -1 => j - 1 >= 0)

\* Neighbors without the exclusion of the cells already known safe.
NeighborsKeepSafes(cell, sf, mn) ==
    {c \in {<<cell[1] + Deltas[n][1], cell[2] + Deltas[n][2]>> : n \in 1 .. 8} :
        /\ NeighborInBounds(cell[1], cell[2], <<c[1] - cell[1], c[2] - cell[2]>>)
        /\ c \notin mn}

\* The list "neighbors" built by add_knowledge, as a set.
Neighbors(cell, sf, mn) ==
    {c \in {<<cell[1] + Deltas[n][1], cell[2] + Deltas[n][2]>> : n \in 1 .. 8} :
        /\ NeighborInBounds(cell[1], cell[2], <<c[1] - cell[1], c[2] - cell[2]>>)
        /\ c \notin sf
        /\ c \notin mn}

\* "neighborsCount": count less one for each of the eight offsets in self.mines.
NeighborsCount(cell, count, mn) ==
    count - Cardinality({n \in 1 .. 8 :
                <<cell[1] + Deltas[n][1], cell[2] + Deltas[n][2]>> \in mn})

\* "self.knowledge.pop()"
Pop(kn) == SubSeq(kn, 1, Len(kn) - 1)

\* "i in self.knowledge[:n]" under Sentence.__eq__
RemoveDuplicates(kn) ==
    LET keep == {n \in 1 .. Len(kn) : \A m \in 1 .. n - 1 : kn[m] # kn[n]}
        F[n \in 0 .. Len(kn)] ==
            IF n = 0 THEN <<>>
            ELSE IF n \in keep THEN Append(F[n - 1], kn[n]) ELSE F[n - 1]
    IN F[Len(kn)]

Init ==
    /\ height \in 1 .. MaxHeight
    /\ width \in 1 .. MaxWidth
    /\ board \in {b \in SUBSET Grid(height, width) : Cardinality(b) <= MaxMines}
    /\ moves_made = {}
    /\ safes = {}
    /\ mines = {}
    /\ knowledge = <<>>
    /\ newInferences = <<>>
    /\ pc = "idle"
    /\ it = 0
    /\ sample = None
    /\ ret = [op |-> "init", val |-> None]

\* add_knowledge, lines 195-240: record the move, mark the cell safe, build
\* the sentence and append it, and enter the inference loop.  The caller
\* passes a freshly revealed cell that holds no mine, and the count the board
\* reports for it.
AddKnowledge(cell) ==
    /\ pc = "idle"
    /\ cell \in Grid(height, width) \ board
    /\ cell \notin moves_made
    /\ LET count == nearby_mines(cell)
           kb1 == mark_safe(KB(safes, mines, knowledge), cell)
           sentence == Sentence(Neighbors(cell, kb1.safes, kb1.mines),
                                NeighborsCount(cell, count, kb1.mines))
       IN /\ moves_made' = moves_made \cup {cell}
          /\ safes' = kb1.safes
          /\ mines' = kb1.mines
          /\ knowledge' = Append(kb1.knowledge, sentence)
    /\ newInferences' = <<>>
    /\ pc' = "infer"
    /\ it' = 1
    /\ ret' = [op |-> "running", val |-> cell]
    /\ UNCHANGED <<height, width, board, sample>>

\* MinesweeperAI.inferences: the cells of set1 outside set2 are all safe, all
\* mines, or the subject of a new sentence put on newInferences.
inferences(kb, ni, set1, set2) ==
    LET difference == {x \in set1.cells : x \notin set2.cells}
    IN IF set1.count = set2.count
       THEN [kb |-> MarkSafes(kb, difference), ni |-> ni]
       ELSE IF Cardinality(difference) = set1.count - set2.count
       THEN [kb |-> MarkMines(kb, difference), ni |-> ni]
       ELSE [kb |-> kb,
             ni |-> Append(ni, Sentence(difference, set1.count - set2.count))]

\* add_knowledge, lines 241-245: one iteration of the loop that compares each
\* sentence k with the sentence appended by this call (the last of the list).
InferStep ==
    /\ pc = "infer"
    /\ it <= Len(knowledge)
    /\ LET k == knowledge[it]
           sentence == knowledge[Len(knowledge)]
           kb == KB(safes, mines, knowledge)
           r == IF k # sentence /\ (k.cells \cap sentence.cells) = sentence.cells
                THEN inferences(kb, newInferences, k, sentence)
                ELSE IF k # sentence /\ (sentence.cells \cap k.cells) = k.cells
                THEN inferences(kb, newInferences, sentence, k)
                ELSE [kb |-> kb, ni |-> newInferences]
       IN /\ safes' = r.kb.safes
          /\ mines' = r.kb.mines
          /\ knowledge' = r.kb.knowledge
          /\ newInferences' = r.ni
    /\ it' = it + 1
    /\ UNCHANGED <<height, width, board, moves_made, pc, sample, ret>>

\* add_knowledge, lines 247-250: the loop is over; append the new inferences,
\* remove the duplicates and enter the resolution loop.
InferDone ==
    /\ pc = "infer"
    /\ it > Len(knowledge)
    /\ knowledge' = RemoveDuplicates(knowledge \o newInferences)
    /\ newInferences' = <<>>
    /\ pc' = "resolve"
    /\ it' = 1
    /\ UNCHANGED <<height, width, board, moves_made, safes, mines, sample, ret>>

\* One iteration of the loop of lines 252-260 on the sentence at position n.
\* k is the object the loop holds: it is narrowed with the list while it is
\* still in the list, and keeps its value once pop() has removed it.
ResolveBody(kb, n) ==
    LET k0 == kb.knowledge[n]
        kb1 == IF known_mines(k0)
               THEN MarkMines(KB(kb.safes, kb.mines, Pop(kb.knowledge)), k0.cells)
               ELSE kb
        k1 == IF n <= Len(kb1.knowledge) THEN kb1.knowledge[n] ELSE k0
    IN IF known_safes(k1)
       THEN MarkSafes(KB(kb1.safes, kb1.mines, Pop(kb1.knowledge)), k1.cells)
       ELSE kb1

\* The resolution loop without the advance to the next sentence.
ResolveStepNoAdvance ==
    /\ pc = "resolve"
    /\ it <= Len(knowledge)
    /\ LET kb == ResolveBody(KB(safes, mines, knowledge), it)
       IN /\ safes' = kb.safes
          /\ mines' = kb.mines
          /\ knowledge' = kb.knowledge
    /\ UNCHANGED <<height, width, board, moves_made, newInferences, pc, it, sample, ret>>

ResolveStep ==
    /\ pc = "resolve"
    /\ it <= Len(knowledge)
    /\ LET kb == ResolveBody(KB(safes, mines, knowledge), it)
       IN /\ safes' = kb.safes
          /\ mines' = kb.mines
          /\ knowledge' = kb.knowledge
    /\ it' = it + 1
    /\ UNCHANGED <<height, width, board, moves_made, newInferences, pc, sample, ret>>

\* The resolution loop has run off the end of the list: add_knowledge returns.
AddKnowledgeReturn ==
    /\ pc = "resolve"
    /\ it > Len(knowledge)
    /\ pc' = "idle"
    /\ it' = 0
    /\ ret' = [op |-> "add_knowledge", val |-> ret.val]
    /\ UNCHANGED <<height, width, board, kbvars, newInferences, sample>>

\* make_safe_move without the filter on moves_made.
MakeSafeMoveAnySafe ==
    /\ pc = "idle"
    /\ IF safes = {}
       THEN ret' = [op |-> "make_safe_move", val |-> None]
       ELSE \E x \in safes : ret' = [op |-> "make_safe_move", val |-> x]
    /\ UNCHANGED <<height, width, board, kbvars, newInferences, pc, it, sample>>

\* MinesweeperAI.make_safe_move: the first element, in the set's iteration
\* order, of the safe cells that are not moves made; None when there is none.
MakeSafeMove ==
    /\ pc = "idle"
    /\ LET cells == {x \in safes : x \notin moves_made}
       IN IF cells = {}
          THEN ret' = [op |-> "make_safe_move", val |-> None]
          ELSE \E x \in cells : ret' = [op |-> "make_safe_move", val |-> x]
    /\ UNCHANGED <<height, width, board, kbvars, newInferences, pc, it, sample>>

\* make_random_move, lines 291-295: None when the two sizes add up to the size
\* of the board, else a first random cell.
MakeRandomMove ==
    /\ pc = "idle"
    /\ IF Cardinality(moves_made) + Cardinality(mines) = width * height
       THEN /\ ret' = [op |-> "make_random_move", val |-> None]
            /\ UNCHANGED <<pc, sample>>
       ELSE /\ \E i \in 0 .. height - 1, j \in 0 .. width - 1 : sample' = <<i, j>>
            /\ pc' = "random"
            /\ ret' = [op |-> "running", val |-> None]
    /\ UNCHANGED <<height, width, board, kbvars, newInferences, it>>

\* make_random_move, lines 296-298: the cell is taken; draw another one.
RandomRetry ==
    /\ pc = "random"
    /\ (sample \in moves_made \/ sample \in mines)
    /\ \E i \in 0 .. height - 1, j \in 0 .. width - 1 : sample' = <<i, j>>
    /\ UNCHANGED <<height, width, board, kbvars, newInferences, pc, it, ret>>

\* make_random_move, line 299: the cell is free; return it.
RandomReturn ==
    /\ pc = "random"
    /\ ~(sample \in moves_made \/ sample \in mines)
    /\ ret' = [op |-> "make_random_move", val |-> sample]
    /\ pc' = "idle"
    /\ sample' = None
    /\ UNCHANGED <<height, width, board, kbvars, newInferences, it>>

Next ==
    \/ \E cell \in Grid(MaxHeight, MaxWidth) : AddKnowledge(cell)
    \/ InferStep
    \/ InferDone
    \/ ResolveStep
    \/ AddKnowledgeReturn
    \/ MakeSafeMove
    \/ MakeRandomMove
    \/ RandomRetry
    \/ RandomReturn

Spec == Init /\ [][Next]_vars

\* The steps of a running add_knowledge call, which runs to completion.
CallStep == InferStep \/ InferDone \/ ResolveStep \/ AddKnowledgeReturn

\* The calls of add_knowledge alone.
NextAddKnowledge ==
    \/ \E cell \in Grid(MaxHeight, MaxWidth) : AddKnowledge(cell)
    \/ CallStep

InitLive == Init /\ Cardinality(board) <= MaxMinesLive

\* A call that has started goes on to its next step.
LiveSpec == InitLive /\ [][NextAddKnowledge]_vars /\ WF_vars(CallStep)

\* The boards whose height equals their width.
InitSquare == Init /\ height = width

SpecSquare == InitSquare /\ [][Next]_vars

----------------------------------------------------------------------------
\* No call is running.
Idle == pc = "idle"

\* add_knowledge has just returned from the call on cell c.
Returned(c) == Idle /\ ret = [op |-> "add_knowledge", val |-> c]

\* C1: soundness: every cell of mines is a mine of the true board and no cell
\* of safes is one, for every height and width.
C1_Soundness == mines \subseteq board /\ safes \cap board = {}

\* C2: safes and mines are disjoint in every reachable state, the states
\* inside a call included.
C2_Disjoint == safes \cap mines = {}

\* C3: once add_knowledge has returned, no sentence of knowledge holds a cell
\* that is in safes or in mines.
C3_NoKnownCellInSentence ==
    Idle => \A n \in 1 .. Len(knowledge) :
                knowledge[n].cells \cap (safes \cup mines) = {}

\* C4: every sentence of knowledge has 0 <= count <= len(cells), in every
\* reachable state.
C4_WellFormed ==
    \A n \in 1 .. Len(knowledge) :
        /\ 0 <= knowledge[n].count
        /\ knowledge[n].count <= Cardinality(knowledge[n].cells)

\* C5: once add_knowledge has returned, no two sentences of knowledge are
\* equal.
C5_NoDuplicates ==
    Idle => \A n, m \in 1 .. Len(knowledge) :
                n # m => knowledge[n] # knowledge[m]

\* C6: once add_knowledge has returned, no sentence with cells has count 0 or
\* count equal to the number of its cells.
C6_ResolutionSaturated ==
    Idle => \A n \in 1 .. Len(knowledge) :
                knowledge[n].cells # {} =>
                    /\ knowledge[n].count # 0
                    /\ knowledge[n].count # Cardinality(knowledge[n].cells)

\* C7: once add_knowledge has returned, for every two sentences A and B of
\* knowledge with B.cells a subset of A.cells, the cells of A outside B are
\* all in safes when the counts are equal, all in mines when the difference
\* of the counts is their number, and otherwise the sentence made of them and
\* of the difference of the counts is in knowledge.
C7_SubsetSaturated ==
    Idle => \A n, m \in 1 .. Len(knowledge) :
                (n # m /\ knowledge[m].cells \subseteq knowledge[n].cells) =>
                    LET A == knowledge[n]
                        B == knowledge[m]
                        diff == A.cells \ B.cells
                        deltaCount == A.count - B.count
                    IN IF deltaCount = 0 THEN diff \subseteq safes
                       ELSE IF deltaCount = Cardinality(diff) THEN diff \subseteq mines
                       ELSE \E q \in 1 .. Len(knowledge) :
                                knowledge[q] = Sentence(diff, deltaCount)

\* The 3 x 3 board with its only mine at (2, 2), right after the calls
\* add_knowledge((0, 0), 0) and add_knowledge((1, 1), 1) from the empty
\* knowledge base: (1, 1) is the cell of the call that returned and (0, 0)
\* the only other move.
ScenarioDone ==
    /\ height = 3 /\ width = 3 /\ board = {<<2, 2>>}
    /\ moves_made = {<<0, 0>>, <<1, 1>>}
    /\ Returned(<<1, 1>>)

\* C8 as stated: at the end of the scenario (2, 2) is in mines.
C8_ScenarioMine == ScenarioDone => <<2, 2>> \in mines

\* C8 as amended: at the end of the scenario (2, 2) is not in mines; no mine
\* is known, the safe cells are (0, 0) and its three neighbours, and (2, 2)
\* is one of the five cells of the only sentence, of count 1.
C8_ScenarioOpen ==
    ScenarioDone =>
        /\ <<2, 2>> \notin mines
        /\ mines = {}
        /\ safes = {<<0, 0>>, <<0, 1>>, <<1, 0>>, <<1, 1>>}
        /\ knowledge = << Sentence({<<0, 2>>, <<1, 2>>, <<2, 0>>, <<2, 1>>, <<2, 2>>}, 1) >>

C8_Witness == ScenarioDone

\* C9: a step in which make_safe_move returns leaves moves_made, safes,
\* mines and knowledge unchanged; it returns None exactly when every cell of
\* safes is in moves_made, and otherwise a cell of safes not in moves_made.
C9_MakeSafeMove ==
    [][ret'.op = "make_safe_move" =>
            /\ UNCHANGED kbvars
            /\ (ret'.val = None <=> safes \subseteq moves_made)
            /\ (ret'.val # None => ret'.val \in safes /\ ret'.val \notin moves_made)]_vars

\* make_safe_move has returned a cell while other safe cells were left and
\* sentences were held.
C9_Witness ==
    /\ ret.op = "make_safe_move"
    /\ ret.val # None
    /\ Cardinality(safes \ moves_made) >= 2
    /\ knowledge # <<>>

\* The cells of the board that are neither moves made nor known mines.
Free == Grid(height, width) \ (moves_made \cup mines)

\* C10: make_random_move returns None exactly when no cell of the board is
\* free, and otherwise a free cell of the board: it draws cells only while
\* there is a free one.
C10_MakeRandomMove ==
    /\ ret.op = "make_random_move" =>
            /\ (ret.val = None <=> Free = {})
            /\ (ret.val # None => ret.val \in Free)
    /\ pc = "random" => Free # {}

\* add_knowledge is running.
Running == pc \in {"infer", "resolve"}

\* An upper bound of the number of steps the running call has left: each
\* iteration of the inference loop adds at most one sentence to newInferences,
\* and the resolution loop never lengthens the list.
CallVariant ==
    IF pc = "infer"
    THEN 2 * (Len(knowledge) + 1 - it) + Len(knowledge) + Len(newInferences) + 4
    ELSE IF pc = "resolve" THEN (Len(knowledge) + 1 - it) + 2
    ELSE 0

\* The passes of inference followed by resolution the running call makes:
\* add_knowledge has no outer loop around lines 241-260.
Passes == IF Running THEN 1 ELSE 0

C12_Monotone ==
    [][/\ safes \subseteq safes'
       /\ mines \subseteq mines'
       /\ moves_made \subseteq moves_made']_vars

\* Several calls have returned and each of the three sets has grown.
C12_Witness ==
    /\ Idle
    /\ Cardinality(moves_made) >= 2
    /\ mines # {}
    /\ safes \ moves_made # {}

\* The sentences the program holds: those of knowledge and of newInferences.
HeldSentences ==
    {knowledge[n] : n \in 1 .. Len(knowledge)}
        \cup {newInferences[n] : n \in 1 .. Len(newInferences)}

\* The cells a sentence is narrowed by: those of the board and its border.
NarrowingCells == (0 .. MaxHeight) \X (0 .. MaxWidth)

\* C13: narrowing is idempotent: for every sentence held and every cell,
\* Sentence.mark_safe applied twice gives what it gives applied once, and so
\* does Sentence.mark_mine; the count goes down by one exactly when the cell
\* was a member, and a sentence without the cell is left as it is.
C13_NarrowingIdempotent ==
    \A S \in HeldSentences : \A c \in NarrowingCells :
        /\ SentenceMarkSafe(SentenceMarkSafe(S, c), c) = SentenceMarkSafe(S, c)
        /\ SentenceMarkMine(SentenceMarkMine(S, c), c) = SentenceMarkMine(S, c)
        /\ c \in S.cells =>
                /\ SentenceMarkMine(S, c) = Sentence(S.cells \ {c}, S.count - 1)
                /\ SentenceMarkSafe(S, c) = Sentence(S.cells \ {c}, S.count)
        /\ c \notin S.cells =>
                /\ SentenceMarkMine(S, c) = S
                /\ SentenceMarkSafe(S, c) = S

\* A sentence of several cells is held after cells were marked as mines and
\* as safe.
C13_Witness ==
    /\ mines # {}
    /\ safes \ moves_made # {}
    /\ \E S \in HeldSentences : Cardinality(S.cells) >= 2 /\ S.count >= 1

\* The cells of the board within one row and one column of cell, cell apart.
GridNeighbors(cell) ==
    {c \in Grid(height, width) :
        /\ c # cell
        /\ c[1] - cell[1] \in -1 .. 1
        /\ c[2] - cell[2] \in -1 .. 1}

\* C14: the sentence add_knowledge((i, j), count) appends has as cells the
\* neighbours of (i, j) on the height x width board that are in neither safes
\* nor mines at that moment, and as count the count passed less the number of
\* those neighbours that are in mines.
C14_SentenceConstruction ==
    [][(pc = "idle" /\ pc' = "infer") =>
            LET cell == ret'.val
                nb == GridNeighbors(cell)
            IN knowledge'[Len(knowledge')] =
                    Sentence(nb \ (safes' \cup mines'),
                             nearby_mines(cell) - Cardinality(nb \cap mines'))]_vars

\* C15: when add_knowledge(cell, 0) has returned, the count 0 being the true
\* one, every neighbour of cell on the board is in safes.
C15_ZeroCount ==
    \A c \in Grid(height, width) :
        (Returned(c) /\ nearby_mines(c) = 0) => GridNeighbors(c) \subseteq safes

\* C16: every sentence add_knowledge removes from knowledge is equal to a
\* sentence that is kept, or is the sentence the step of the resolution loop
\* found resolved: the removal of duplicates drops only sentences equal to a
\* kept one, and a step of the resolution loop on the sentence at position it
\* drops no sentence at another position, unless it is equal to a sentence
\* that is kept, as that one is before or after the step.
C16_OnlyResolvedDropped ==
    [][/\ (pc = "infer" /\ pc' = "resolve") =>
            \A S \in HeldSentences : \E q \in 1 .. Len(knowledge') : knowledge'[q] = S
       /\ (pc = "resolve" /\ pc' = "resolve") =>
            \A p \in Len(knowledge') + 1 .. Len(knowledge) :
                \/ p = it
                \/ \E q \in 1 .. Len(knowledge') :
                        knowledge[q] = knowledge[p] \/ knowledge'[q] = knowledge[p]]_vars

\* C17: when len(moves_made) + len(mines) is not width * height, some cell
\* of the board is in neither moves_made nor mines, so that the loop of
\* make_random_move has a cell to end on.
C17_SamplingPrecondition ==
    Cardinality(moves_made) + Cardinality(mines) # width * height => Free # {}

\* C18: every cell of safes, of mines and of every sentence of knowledge is a
\* cell of the height x width board, and so is every cell make_safe_move
\* returns.
C18_CellsOnBoard ==
    /\ safes \subseteq Grid(height, width)
    /\ mines \subseteq Grid(height, width)
    /\ \A n \in 1 .. Len(knowledge) : knowledge[n].cells \subseteq Grid(height, width)
    /\ (ret.op = "make_safe_move" /\ ret.val # None) => ret.val \in Grid(height, width)

\* C19: moves_made is a subset of safes, moves_made and mines are disjoint,
\* and len(moves_made) + len(mines) is the number of cells of their union.
C19_MovesAreSafe ==
    /\ moves_made \subseteq safes
    /\ moves_made \cap mines = {}
    /\ Cardinality(moves_made) + Cardinality(mines)
            = Cardinality(moves_made \cup mines)
====
